---- MODULE Spec2Model ----
(***************************************************************************)
(* gh search repos: the query compiler, the paginated fetcher and the      *)
(* error translator of pkg/cmd/search/shared/searcher.go, driven by        *)
(* reposRun of pkg/cmd/search/repos.                                       *)
(*                                                                         *)
(* A Go string is a sequence of one-character strings.  Texts the model    *)
(* never looks into (a provider's error message, a status line, a format   *)
(* literal) are single elements of such a sequence.                        *)
(***************************************************************************)
EXTENDS Integers, Sequences, FiniteSets, TLC

VARIABLES
    args,        \* the keyword list as the caller built it (history; never written)
    keywords,    \* the backing array of opts.Query.Keywords, shared by every copy of the Query
    qualifiers,  \* opts.Query.Qualifiers: qualifier name -> [set, key, value]
    limit,       \* opts.Query.Limit as the caller set it
    provider,    \* the remote search provider the HTTP client talks to
    pc,          \* position of reposRun / Repositories
    query,       \* Repositories' own copy of the Query: its Limit and Page fields
    toRetrieve,  \* Repositories' local toRetrieve
    resp,        \* Repositories' local resp (Nil before the first request)
    err,         \* the error Repositories returned (Nil for none)
    result,      \* Repositories' local result, returned with err
    requests,    \* every HTTP request sent so far, in order
    outcomes,    \* for each request, the number of items its page held, or Failed
    rendered,    \* [q |-> the string the last QueryString call returned] (Nil before the first)
    out,         \* what reposRun produced: the items displayed or the URL browsed
    msg          \* what err.Error() returned when the caller printed the error

vars == <<args, keywords, qualifiers, limit, provider, pc, query, toRetrieve,
          resp, err, result, requests, outcomes, rendered, out, msg>>

Nil == [nil |-> TRUE]

-----------------------------------------------------------------------------
(* Bounds of the model *)

\* total number of characters in the keywords of a query
MaxKeywordChars == 3
\* longest qualifier value
MaxValueLen == 2
\* requests a fetch may send to the arbitrary provider before the model stops it
MaxRequests == 3

-----------------------------------------------------------------------------
(* Program constants *)

maxPerPage == 100
MinLimit == 1
MaxLimit == 1000
StatusUnprocessable == 422

-----------------------------------------------------------------------------
(* Strings *)

\* the characters the quoting rules tell apart, and one ordinary letter
Chars == {"a", ":", " ", "\t", "\""}

RECURSIVE StringsOfLen(_)
StringsOfLen(n) ==
    IF n = 0 THEN {<<>>}
    ELSE {<<c>> \o s : c \in Chars, s \in StringsOfLen(n - 1)}

StringsUpTo(n) == UNION {StringsOfLen(k) : k \in 0..n}

RECURSIVE Join(_, _)
Join(elems, sep) ==
    IF Len(elems) = 0 THEN <<>>
    ELSE IF Len(elems) = 1 THEN elems[1]
    ELSE elems[1] \o sep \o Join(Tail(elems), sep)

ContainsAny(s, chars) == \E i \in DOMAIN s : s[i] \in chars

Contains(s, c) == \E i \in DOMAIN s : s[i] = c

Index(s, c) == CHOOSE i \in DOMAIN s : s[i] = c /\ \A j \in 1..(i - 1) : s[j] # c

SplitN2(s, c) ==
    IF Contains(s, c)
    THEN <<SubSeq(s, 1, Index(s, c) - 1), SubSeq(s, Index(s, c) + 1, Len(s))>>
    ELSE <<s>>

IsSpace(c) == c \in {" ", "\t", "\n", "\r"}

RECURSIVE TrimLeft(_)
TrimLeft(s) == IF Len(s) > 0 /\ IsSpace(s[1]) THEN TrimLeft(Tail(s)) ELSE s

RECURSIVE TrimRight(_)
TrimRight(s) ==
    IF Len(s) > 0 /\ IsSpace(s[Len(s)]) THEN TrimRight(SubSeq(s, 1, Len(s) - 1)) ELSE s

TrimSpace(s) == TrimRight(TrimLeft(s))

EscapeChar(c) ==
    CASE c = "\"" -> <<"\\", "\"">>
      [] c = "\\" -> <<"\\", "\\">>
      [] c = "\t" -> <<"\\", "t">>
      [] c = "\n" -> <<"\\", "n">>
      [] c = "\r" -> <<"\\", "r">>
      [] OTHER -> <<c>>

RECURSIVE Escape(_)
Escape(s) == IF Len(s) = 0 THEN <<>> ELSE EscapeChar(s[1]) \o Escape(Tail(s))

\* fmt.Sprintf("%q", s)
Quote(s) == <<"\"">> \o Escape(s) \o <<"\"">>

-----------------------------------------------------------------------------
(* QueryCompiler *)

QuoteChars == {" ", "\"", "\t", "\r", "\n"}

quoteKeyword(k) ==
    IF ContainsAny(k, QuoteChars)
    THEN IF Contains(k, ":")
         THEN LET z == SplitN2(k, ":") IN z[1] \o <<":">> \o Quote(z[2])
         ELSE Quote(k)
    ELSE k

quoteKeywords(ks) == [i \in DOMAIN ks |-> quoteKeyword(ks[i])]

\* fault variant: a qualifier value quoted the way a keyword is
quoteQualifierSplitting(q) == quoteKeyword(q)

quoteQualifier(q) == IF ContainsAny(q, QuoteChars) THEN Quote(q) ELSE q

\* fault variant: listSet without its IsSet test
listSetIgnoringIsSet(q) ==
    [k \in {q[n].key : n \in DOMAIN q} |->
        q[CHOOSE n \in DOMAIN q : q[n].key = k].value]

\* the map listSet builds: the keys of the set qualifiers, each with its String()
listSet(q) ==
    LET names == {n \in DOMAIN q : q[n].set}
    IN [k \in {q[n].key : n \in names} |->
           q[CHOOSE n \in names : q[n].key = k].value]

\* every order in which a range over a Go map with these keys can visit them
RECURSIVE Orders(_)
Orders(S) ==
    IF S = {} THEN {<<>>}
    ELSE UNION {{<<k>> \o o : o \in Orders(S \ {k})} : k \in S}

RECURSIVE Terms(_, _)
Terms(m, order) ==
    IF Len(order) = 0 THEN <<>>
    ELSE <<" ">> \o order[1] \o <<":">> \o quoteQualifier(m[order[1]])
         \o Terms(m, Tail(order))

\* the string QueryString returns when the range over the map visits the keys in
\* `order`; the call also overwrites the keyword array ks with quoteKeywords(ks)
QueryString(ks, q, order) == Join(quoteKeywords(ks), <<" ">>) \o Terms(listSet(q), order)

-----------------------------------------------------------------------------
(* Numbers in text *)

Digits == <<"0", "1", "2", "3", "4", "5", "6", "7", "8", "9">>

DigitValue(c) == (CHOOSE i \in DOMAIN Digits : Digits[i] = c) - 1

RECURSIVE Itoa(_)
Itoa(n) == IF n < 10 THEN <<Digits[n + 1]>> ELSE Itoa(n \div 10) \o <<Digits[(n % 10) + 1]>>

RECURSIVE AtoiValue(_)
AtoiValue(ds) ==
    IF Len(ds) = 0 THEN 0
    ELSE 10 * AtoiValue(SubSeq(ds, 1, Len(ds) - 1)) + DigitValue(ds[Len(ds)])

\* strconv.Atoi on a run of decimal digits: the empty run is a syntax error
Atoi(ds) == IF Len(ds) = 0 THEN [ok |-> FALSE, i |-> 0] ELSE [ok |-> TRUE, i |-> AtoiValue(ds)]

\* url.QueryEscape, on the characters a query string is made of
QueryEscapeChar(c) ==
    CASE c = " " -> <<"+">>
      [] c = "\"" -> <<"%", "2", "2">>
      [] c = ":" -> <<"%", "3", "A">>
      [] c = "\t" -> <<"%", "0", "9">>
      [] c = "\\" -> <<"%", "5", "C">>
      [] OTHER -> <<c>>

RECURSIVE QueryEscape(_)
QueryEscape(s) == IF Len(s) = 0 THEN <<>> ELSE QueryEscapeChar(s[1]) \o QueryEscape(Tail(s))

HexChar(h) ==
    CASE h = <<"2", "2">> -> "\""
      [] h = <<"3", "A">> -> ":"
      [] h = <<"0", "9">> -> "\t"
      [] h = <<"5", "C">> -> "\\"
      [] OTHER -> "?"

\* url.QueryUnescape, as RequestURL.Query() applies it to a parameter's value
RECURSIVE QueryUnescape(_)
QueryUnescape(s) ==
    IF Len(s) = 0 THEN <<>>
    ELSE IF s[1] = "+" THEN <<" ">> \o QueryUnescape(Tail(s))
    ELSE IF s[1] = "%" /\ Len(s) >= 3
         THEN <<HexChar(SubSeq(s, 2, 3))>> \o QueryUnescape(SubSeq(s, 4, Len(s)))
    ELSE <<s[1]>> \o QueryUnescape(Tail(s))

-----------------------------------------------------------------------------
(* The provider *)

\* a Link header is a sequence of entries <url>; rel="..."; of the url only its
\* page parameter matters: whether it has one, and the digits after "page="
LinkEntry(rel, hasPage, digits) == [rel |-> rel, hasPage |-> hasPage, digits |-> digits]

\* the entries the arbitrary provider sends: a next link without a page parameter,
\* with an empty one, with page 0 and with page 12, and a last link
LinkEntries ==
    {LinkEntry("next", FALSE, <<>>), LinkEntry("next", TRUE, <<>>),
     LinkEntry("next", TRUE, <<"0">>), LinkEntry("next", TRUE, <<"1", "2">>),
     LinkEntry("last", TRUE, <<"1", "2">>)}

\* its Link headers: none, one entry, or two
AnyLinks == {<<>>} \cup {<<e>> : e \in LinkEntries} \cup {<<e, f>> : e, f \in LinkEntries}

StatusLine(code) ==
    CASE code = 200 -> "200 OK"
      [] code = 422 -> "422 Unprocessable Entity"
      [] code = 503 -> "503 Service Unavailable"
      [] OTHER -> "?"

Response(code, json, link, body) ==
    [transport |-> FALSE, StatusCode |-> code, Status |-> StatusLine(code),
     Json |-> json, Link |-> link, Body |-> body]

TransportFailure == [transport |-> TRUE]

ItemsBody(items, total, incomplete) ==
    [valid |-> TRUE, Items |-> items, Total |-> total, IncompleteResults |-> incomplete]

ErrorBody(message, errors) == [valid |-> TRUE, Message |-> message, Errors |-> errors]

InvalidBody == [valid |-> FALSE]

ErrorBodies ==
    {InvalidBody} \cup
    {ErrorBody("Validation Failed", es) :
        es \in {<<>>, <<[Message |-> "E1"]>>, <<[Message |-> "E1"], [Message |-> "E2"]>>}}

\* the item counts the arbitrary provider may answer a request for s items with
PageLens(s) == {0, s - 1, s, s + 1}

\* the arbitrary provider: any status, any body, any Link header
AnyResponses(p, s) ==
    {TransportFailure}
    \cup {Response(200, TRUE, <<>>, InvalidBody)}
    \cup {Response(200, TRUE, l, ItemsBody([i \in 1..n |-> i], 7, n = 0)) :
            l \in AnyLinks, n \in PageLens(s)}
    \cup {Response(c, j, <<>>, b) : c \in {422, 503}, j \in BOOLEAN, b \in ErrorBodies}

CeilDiv(a, b) == (a + b - 1) \div b

\* the provider over a corpus of n items: the request (page p, per_page s) is
\* served the items (p-1)*s+1 .. p*s, with a next link while items remain
CorpusLink(n, p, s) ==
    IF p * s < n
    THEN (IF p > 1 THEN <<LinkEntry("prev", TRUE, Itoa(p - 1))>> ELSE <<>>)
         \o <<LinkEntry("next", TRUE, Itoa(p + 1)),
              LinkEntry("last", TRUE, Itoa(CeilDiv(n, s)))>>
    ELSE <<>>

CorpusPage(n, p, s) ==
    LET first == (p - 1) * s + 1
        last == IF p * s < n THEN p * s ELSE n
    IN IF last < first THEN <<>> ELSE [i \in 1..(last - first + 1) |-> first + i - 1]

CorpusResponses(n, p, s) ==
    {TransportFailure,
     Response(200, TRUE, CorpusLink(n, p, s), ItemsBody(CorpusPage(n, p, s), n, FALSE))}

Responses(p, s) ==
    IF provider.kind = "corpus" THEN CorpusResponses(provider.n, p, s)
    ELSE AnyResponses(p, s)

-----------------------------------------------------------------------------
(* ErrorTranslator *)

RequestURL(req) ==
    <<"https://api.github.com/search/repositories?page=">> \o Itoa(req.page)
    \o <<"&per_page=">> \o Itoa(req.per_page) \o <<"&q=">> \o QueryEscape(req.q)

\* the value of the q parameter of a request URL, as RequestURL.Query().Get("q")
\* decodes it
QueryGetQ(url) ==
    LET i == CHOOSE k \in DOMAIN url : url[k] = "&q="
    IN QueryUnescape(SubSeq(url, i + 1, Len(url)))

handleHTTPError(r, url) ==
    IF ~r.Json
    THEN [kind |-> "http", RequestURL |-> url, StatusCode |-> r.StatusCode,
          Message |-> r.Status, Errors |-> <<>>]
    ELSE IF ~r.Body.valid
    THEN [kind |-> "json"]
    ELSE [kind |-> "http", RequestURL |-> url, StatusCode |-> r.StatusCode,
          Message |-> r.Body.Message, Errors |-> r.Body.Errors]

Panic == [panic |-> TRUE, text |-> <<"index out of range [0] with length 0">>]

Message(text) == [panic |-> FALSE, text |-> text]

\* err.Error(), as the caller of reposRun calls it to print the error
Error(e) ==
    IF e.kind = "transport" THEN Message(<<"transport error">>)
    ELSE IF e.kind = "json" THEN Message(<<"json error">>)
    ELSE IF e.StatusCode # StatusUnprocessable
    THEN Message(<<"HTTP ">> \o Itoa(e.StatusCode) \o <<": ", e.Message, " (">>
                 \o e.RequestURL \o <<")">>)
    ELSE IF Len(e.Errors) = 0 THEN Panic
    ELSE Message(<<"Invalid search query ">> \o Quote(TrimSpace(QueryGetQ(e.RequestURL)))
                 \o <<".\n", e.Errors[1].Message>>)

-----------------------------------------------------------------------------
(* PaginatedFetcher *)

\* fault variants of min: no cap, and the cap always
minFirst(a, b) == a

minSecond(a, b) == b

min(a, b) == IF a < b THEN a ELSE b

\* fault variant: nextPage taking the page of any entry, whatever its rel
nextPageAnyRel(r) ==
    IF r = Nil THEN 1
    ELSE LET good == {i \in DOMAIN r.Link : r.Link[i].hasPage /\ Atoi(r.Link[i].digits).ok}
         IN IF good = {} THEN 0
            ELSE Atoi(r.Link[CHOOSE i \in good : \A j \in good : j <= i].digits).i

\* the loop of nextPage: every rel="next" entry whose url has a page parameter
\* that Atoi accepts overwrites page, so the last of them decides
RECURSIVE nextPageFrom(_, _)
nextPageFrom(link, page) ==
    IF Len(link) = 0 THEN page
    ELSE LET m == link[1]
             i == Atoi(m.digits)
         IN nextPageFrom(Tail(link),
                IF m.rel = "next" /\ m.hasPage /\ i.ok THEN i.i ELSE page)

nextPage(r) == IF r = Nil THEN 1 ELSE nextPageFrom(r.Link, 0)

\* fault variant: search reporting a failed exchange as an empty page
searchIgnoringStatus(req, r) ==
    IF r.transport THEN [resp |-> Nil, err |-> [kind |-> "transport"], page |-> Nil]
    ELSE IF ~r.Body.valid \/ r.StatusCode # 200
    THEN [resp |-> r, err |-> Nil, page |-> ItemsBody(<<>>, 0, FALSE)]
    ELSE [resp |-> r, err |-> Nil, page |-> r.Body]

\* what search returns for the request req when the client's Do yields r
search(req, r) ==
    IF r.transport THEN [resp |-> Nil, err |-> [kind |-> "transport"], page |-> Nil]
    ELSE IF ~(r.StatusCode >= 200 /\ r.StatusCode < 300)
    THEN [resp |-> r, err |-> handleHTTPError(r, RequestURL(req)), page |-> Nil]
    ELSE IF ~r.Body.valid
    THEN [resp |-> r, err |-> [kind |-> "json"], page |-> Nil]
    ELSE [resp |-> r, err |-> Nil, page |-> r.Body]

Failed == 0 - 1

\* what the provider's answer r was: a failure (no answer, a status outside 2xx,
\* a body that is no JSON), or a page of so many items
Outcome(r) ==
    IF r.transport THEN Failed
    ELSE IF r.StatusCode < 200 \/ r.StatusCode >= 300 \/ ~r.Body.valid THEN Failed
    ELSE Len(r.Body.Items)

\* fault variant: an empty Result returned beside the error
resultOnErrorEmpty(res) == [IncompleteResults |-> FALSE, Total |-> 0, Items |-> <<>>]

\* the Result that Repositories returns beside a non-nil error
resultOnError(res) == res

EmptyResult == [IncompleteResults |-> FALSE, Total |-> 0, Items |-> <<>>]

\* fault variant: the page's items assigned instead of appended
mergeReplacing(res, page) ==
    [IncompleteResults |-> page.IncompleteResults, Total |-> page.Total,
     Items |-> page.Items]

merge(res, page) ==
    [IncompleteResults |-> page.IncompleteResults, Total |-> page.Total,
     Items |-> res.Items \o page.Items]

\* Repositories is entered: its locals are initialised
Repositories ==
    /\ pc = "start"
    /\ pc' = "loop"
    /\ result' = EmptyResult
    /\ toRetrieve' = limit
    /\ resp' = Nil
    /\ err' = Nil
    /\ query' = [Limit |-> limit, Page |-> 0]
    /\ UNCHANGED <<args, keywords, qualifiers, limit, provider, requests, outcomes, rendered, out, msg>>

\* one iteration of the loop that reaches s.search: the request is built (which
\* renders the query), sent, and its response merged or its error returned
Request ==
    /\ pc = "loop"
    /\ toRetrieve > 0
    /\ nextPage(resp) # 0
    /\ provider.kind = "any" => Len(requests) < MaxRequests
    /\ \E order \in Orders(DOMAIN listSet(qualifiers)) :
         LET req == [page |-> nextPage(resp),
                     per_page |-> min(toRetrieve, maxPerPage),
                     q |-> QueryString(keywords, qualifiers, order)]
         IN \E r \in Responses(req.page, req.per_page) :
              LET s == search(req, r)
              IN /\ query' = [Limit |-> req.per_page, Page |-> req.page]
                 /\ keywords' = quoteKeywords(keywords)
                 /\ rendered' = [q |-> req.q]
                 /\ requests' = Append(requests, req)
                 /\ outcomes' = Append(outcomes, Outcome(r))
                 /\ resp' = s.resp
                 /\ err' = s.err
                 /\ IF s.err # Nil
                    THEN /\ pc' = "returned"
                         /\ result' = resultOnError(result)
                         /\ UNCHANGED toRetrieve
                    ELSE /\ pc' = "loop"
                         /\ result' = merge(result, s.page)
                         /\ toRetrieve' = toRetrieve - Len(s.page.Items)
    /\ UNCHANGED <<args, qualifiers, limit, provider, out, msg>>

\* the loop ends: toRetrieve is used up, or nextPage found no page to ask for
Return ==
    /\ pc = "loop"
    /\ toRetrieve <= 0 \/ nextPage(resp) = 0
    /\ pc' = "returned"
    /\ query' = IF toRetrieve > 0
                THEN [Limit |-> min(toRetrieve, maxPerPage), Page |-> 0]
                ELSE query
    /\ UNCHANGED <<args, keywords, qualifiers, limit, provider, toRetrieve, resp, err,
                   result, requests, outcomes, rendered, out, msg>>

-----------------------------------------------------------------------------
(* reposRun and its caller *)

\* searcher.URL: the browser URL of the query
URL(ks, q, order) ==
    <<"https://github.com/search?q=">> \o QueryEscape(QueryString(ks, q, order))
    \o <<"&type=repositories">>

\* reposRun in web mode
Browse ==
    /\ pc = "start"
    /\ \E order \in Orders(DOMAIN listSet(qualifiers)) :
         /\ out' = [browsed |-> URL(keywords, qualifiers, order)]
         /\ rendered' = [q |-> QueryString(keywords, qualifiers, order)]
    /\ keywords' = quoteKeywords(keywords)
    /\ pc' = "exit"
    /\ UNCHANGED <<args, qualifiers, limit, provider, query, toRetrieve, resp, err,
                   result, requests, outcomes, msg>>

\* fault variant: nothing handed to the renderer
displayNothing(res) == <<>>

\* what reposRun hands to the renderer
display(res) == res.Items

\* reposRun after Repositories returned: the error is returned, or the items shown
Finish ==
    /\ pc = "returned"
    /\ IF err # Nil
       THEN pc' = "failed" /\ out' = out
       ELSE pc' = "exit" /\ out' = [displayed |-> display(result)]
    /\ UNCHANGED <<args, keywords, qualifiers, limit, provider, query, toRetrieve, resp,
                   err, result, requests, outcomes, rendered, msg>>

\* the caller of reposRun prints the error it got
PrintError ==
    /\ pc = "failed"
    /\ msg' = Error(err)
    /\ pc' = "exit"
    /\ UNCHANGED <<args, keywords, qualifiers, limit, provider, query, toRetrieve, resp,
                   err, result, requests, outcomes, rendered, out>>

Next == Repositories \/ Request \/ Return \/ Browse \/ Finish \/ PrintError

-----------------------------------------------------------------------------
(* Initial states *)

Qualifier(set, key, value) == [set |-> set, key |-> key, value |-> value]

UserKey == <<"u", "s", "e", "r">>

TopicKey == <<"t", "o", "p", "i", "c">>

\* the keyword lists of at most n characters in all, no keyword empty
RECURSIVE KeywordLists(_)
KeywordLists(n) ==
    {<<>>} \cup UNION {{<<k>> \o rest : k \in StringsOfLen(m), rest \in KeywordLists(n - m)} :
                        m \in 1..n}

\* a qualifier is set to any value of at most MaxValueLen characters, or unset
QualifierValues(key) ==
    {Qualifier(TRUE, key, v) : v \in StringsUpTo(MaxValueLen)}
    \cup {Qualifier(FALSE, key, v) : v \in {<<>>, <<"a">>}}

QualifierSets == [user : QualifierValues(UserKey), topic : QualifierValues(TopicKey)]

PlainQualifiers ==
    [user |-> Qualifier(TRUE, UserKey, <<"a">>), topic |-> Qualifier(FALSE, TopicKey, <<>>)]

Corpus(n) == [kind |-> "corpus", n |-> n]

AnyProvider == [kind |-> "any"]

InitLocals ==
    /\ keywords = args
    /\ pc = "start"
    /\ query = [Limit |-> limit, Page |-> 0]
    /\ toRetrieve = 0
    /\ resp = Nil
    /\ err = Nil
    /\ result = EmptyResult
    /\ requests = <<>>
    /\ outcomes = <<>>
    /\ rendered = Nil
    /\ out = Nil
    /\ msg = Nil

\* the fetcher's inputs: one plain query, every limit, both providers
Init ==
    /\ args = <<<<"a">>>>
    /\ qualifiers = PlainQualifiers
    /\ \/ /\ limit \in MinLimit..MaxLimit
          /\ provider \in {Corpus(n) : n \in {0, 120, 250, 1000, 1001}}
       \/ /\ limit \in {MinLimit, maxPerPage + 1, 250}
          /\ provider = AnyProvider
    /\ InitLocals

Spec == Init /\ [][Next]_vars

\* the compiler's inputs: every small query, fetched in two pages
InitQuery ==
    /\ \/ args \in KeywordLists(MaxKeywordChars) /\ qualifiers = PlainQualifiers
       \/ args = <<<<"a">>>> /\ qualifiers \in QualifierSets
    /\ limit = maxPerPage + 1
    /\ provider = Corpus(250)
    /\ InitLocals

SpecQuery == InitQuery /\ [][Next]_vars

-----------------------------------------------------------------------------
(* Properties of the fetcher, checked under Spec *)

RECURSIVE Sum(_)
Sum(ns) == IF Len(ns) = 0 THEN 0 ELSE ns[1] + Sum(Tail(ns))

\* the number of items merged before request i was sent
MergedBefore(i) == Sum(SubSeq(outcomes, 1, i - 1))

\* every page so far held at most the per_page items its request asked for
PagesWithinPerPage ==
    \A i \in DOMAIN outcomes : outcomes[i] <= requests[i].per_page

\* C1: a fetch that ends without an error, each of whose pages held at most the
\* per_page items requested for it, has accumulated at most limit items
C1_ItemsAtMostLimit ==
    (pc = "returned" /\ err = Nil /\ PagesWithinPerPage) => Len(result.Items) <= limit

\* a fetch over several pages, one of them short, that filled the limit exactly
C1_Witness ==
    /\ pc = "returned" /\ err = Nil /\ PagesWithinPerPage
    /\ Len(requests) >= 3
    /\ \E i \in DOMAIN outcomes : outcomes[i] < requests[i].per_page
    /\ Len(result.Items) = limit

\* C2: every request asks for per_page = min(limit - items merged so far, 100),
\* which is at least 1 and at most 100
C2_PerPageIsMinOfRemaining ==
    \A i \in DOMAIN requests :
        LET remaining == limit - MergedBefore(i)
        IN /\ requests[i].per_page = (IF remaining < 100 THEN remaining ELSE 100)
           /\ requests[i].per_page >= 1
           /\ requests[i].per_page <= 100

\* the tenth request of a fetch with limit 1000
C2_Witness ==
    limit = 1000 /\ Len(requests) = 10 /\ requests[10].per_page = 100

HasNextLink(r) == \E i \in DOMAIN r.Link : r.Link[i].rel = "next"

\* the decimal number a run of digits writes
PageNumber(digits) == CHOOSE p \in 0..(10 ^ Len(digits) - 1) : \E z \in 0..Len(digits) :
                          [i \in 1..z |-> "0"] \o Itoa(p) = digits

\* the rel="next" entries of a response whose url has a page parameter holding a number
NumberedNexts(r) ==
    {i \in DOMAIN r.Link :
        r.Link[i].rel = "next" /\ r.Link[i].hasPage /\ Len(r.Link[i].digits) > 0}

LastOf(S) == CHOOSE i \in S : \A j \in S : j <= i

\* the page a response names as the next one: that of its last numbered next
\* entry, when it has one and the number is not 0
NamesNextPage(r) ==
    NumberedNexts(r) # {} /\ PageNumber(r.Link[LastOf(NumberedNexts(r))].digits) # 0

NamedNextPage(r) == PageNumber(r.Link[LastOf(NumberedNexts(r))].digits)

\* the provider of C3: every page before the last held exactly per_page items;
\* the last response either carries a next link, which names a page and comes
\* with a full page too, or carries none and may come with a shorter page
ExactPages ==
    /\ \A i \in DOMAIN outcomes : i < Len(outcomes) => outcomes[i] = requests[i].per_page
    /\ Len(outcomes) > 0 => outcomes[Len(outcomes)] \in 0..requests[Len(outcomes)].per_page
    /\ (resp # Nil /\ HasNextLink(resp)) =>
          /\ NamesNextPage(resp)
          /\ outcomes[Len(outcomes)] = requests[Len(outcomes)].per_page

C4_OnlyMissingNextEnds ==
    (pc = "returned" /\ err = Nil /\ toRetrieve > 0) => ~HasNextLink(resp)

\* C4, amended: the first request asks for page 1; a later request is sent only
\* while items remain and the previous response names a next page, and asks for
\* that page; the loop ends without an error only when nothing remains or the
\* previous response names no next page (a short page with one never ends it)
C4_NextPageDecides ==
    [][/\ requests' # requests =>
            /\ requests' = Append(requests, requests'[Len(requests')])
            /\ toRetrieve > 0
            /\ IF requests = <<>>
               THEN resp = Nil /\ requests'[1].page = 1
               ELSE /\ resp # Nil
                    /\ NamesNextPage(resp)
                    /\ requests'[Len(requests')].page = NamedNextPage(resp)
       /\ (pc = "loop" /\ pc' = "returned" /\ err' = Nil) =>
            /\ resp # Nil
            /\ toRetrieve <= 0 \/ ~NamesNextPage(resp)]_vars

\* the request for page 12 that follows a short page carrying a next link
C4_Witness ==
    /\ Len(requests) >= 2
    /\ outcomes[1] \in 0..(requests[1].per_page - 1)
    /\ requests[2].page = 12

\* C5: a failed request is the last one the fetch sends: with it Repositories
\* has returned a non-nil error, and no request follows it
C5_ErrorAborts ==
    /\ [](\A i \in DOMAIN outcomes :
            outcomes[i] = Failed => i = Len(requests) /\ err # Nil /\ pc # "loop")
    /\ [][(\E i \in DOMAIN outcomes : outcomes[i] = Failed) => requests' = requests]_vars

\* the third request of a fetch failed and the error went back to the caller
C5_Witness ==
    Len(requests) = 3 /\ outcomes[3] = Failed /\ err # Nil /\ pc = "exit"

\* C6 as the spec states it: the Result returned with an error holds no items
C6_NoItemsWithError ==
    (pc = "returned" /\ err # Nil) => result.Items = <<>>

\* C6, amended: the Result returned with an error holds the items of the pages
\* merged before the failed request (and nothing of the failed one); reposRun
\* returns the error and shows none of them
C6_ItemsLostInReposRun ==
    (pc \in {"returned", "failed", "exit"} /\ err # Nil) =>
        /\ Len(result.Items) = MergedBefore(Len(requests))
        /\ out = Nil

\* a request failed after two pages were merged, and reposRun returned the error
C6_Witness ==
    /\ pc = "failed" /\ err # Nil
    /\ Len(requests) = 3 /\ outcomes[1] > 0 /\ outcomes[2] > 0
    /\ Len(result.Items) = outcomes[1] + outcomes[2]
    /\ out = Nil

-----------------------------------------------------------------------------
(* Properties of the compiler, checked under SpecQuery *)

\* C7: rendering leaves the keywords as the caller built them, and every request
\* of a fetch carries a rendering of the Query the caller passed in
C7_RenderingIsPure ==
    /\ keywords = args
    /\ \A i \in DOMAIN requests :
          \E order \in Orders(DOMAIN listSet(qualifiers)) :
              requests[i].q = QueryString(args, qualifiers, order)

\* C8: two renderings of one Query are the same string; stated for the queries
\* whose keywords need no quoting, which rendering leaves as they are
C8_QualifierOrderDeterministic ==
    quoteKeywords(args) = args =>
        \A i, j \in DOMAIN requests : requests[i].q = requests[j].q

\* the terms of a query string, as the provider's grammar splits it: at the
\* spaces outside double quotes, a backslash inside quotes escaping what follows
RECURSIVE Scan(_, _, _, _, _)
Scan(s, i, cur, inq, acc) ==
    IF i > Len(s) THEN (IF cur = <<>> THEN acc ELSE Append(acc, cur))
    ELSE IF inq
    THEN IF s[i] = "\\" /\ i < Len(s)
         THEN Scan(s, i + 2, cur \o <<s[i], s[i + 1]>>, TRUE, acc)
         ELSE Scan(s, i + 1, Append(cur, s[i]), s[i] # "\"", acc)
    ELSE IF s[i] = " "
    THEN Scan(s, i + 1, <<>>, FALSE, IF cur = <<>> THEN acc ELSE Append(acc, cur))
    ELSE Scan(s, i + 1, Append(cur, s[i]), s[i] = "\"", acc)

TermsOf(s) == Scan(s, 1, <<>>, FALSE, <<>>)

\* the text a double-quoted string stands for
RECURSIVE Unescape(_)
Unescape(s) ==
    IF Len(s) = 0 THEN <<>>
    ELSE IF s[1] = "\\" /\ Len(s) >= 2
    THEN <<CASE s[2] = "t" -> "\t" [] s[2] = "n" -> "\n" [] s[2] = "r" -> "\r"
             [] OTHER -> s[2]>> \o Unescape(SubSeq(s, 3, Len(s)))
    ELSE <<s[1]>> \o Unescape(Tail(s))

Wrapped(t) == Len(t) >= 2 /\ t[1] = "\"" /\ t[Len(t)] = "\""

HasPrefix(t, pre) == Len(t) >= Len(pre) /\ SubSeq(t, 1, Len(pre)) = pre

NeedsQuotes(v) == \E i \in DOMAIN v : v[i] \in {" ", "\t", "\""}

\* what follows the keywords in the last rendered string
QualifierPart == SubSeq(rendered.q, Len(Join(keywords, <<" ">>)) + 1, Len(rendered.q))

\* C9: after the keywords the rendered string holds one term per set qualifier
\* and nothing else: no term of an unset qualifier, and for a set one exactly
\* one term key:value, the value in double quotes iff it contains whitespace or
\* a double quote, and whole (never split at a colon)
C9_OneTermPerSetQualifier ==
    rendered # Nil =>
        LET terms == TermsOf(QualifierPart)
        IN /\ Len(terms) = Cardinality({n \in DOMAIN qualifiers : qualifiers[n].set})
           /\ \A n \in DOMAIN qualifiers :
                LET pre == qualifiers[n].key \o <<":">>
                    mine == {i \in DOMAIN terms : HasPrefix(terms[i], pre)}
                IN IF ~qualifiers[n].set THEN mine = {}
                   ELSE /\ Cardinality(mine) = 1
                        /\ \A i \in mine :
                             LET t == SubSeq(terms[i], Len(pre) + 1, Len(terms[i]))
                                 v == qualifiers[n].value
                             IN /\ Wrapped(t) <=> NeedsQuotes(v)
                                /\ IF Wrapped(t)
                                   THEN Unescape(SubSeq(t, 2, Len(t) - 1)) = v
                                   ELSE t = v

\* a rendering of two set qualifiers, one value with a colon and a space, the
\* other plain
C9_Witness ==
    /\ rendered # Nil
    /\ qualifiers.user.set /\ qualifiers.user.value = <<":", " ">>
    /\ qualifiers.topic.set /\ qualifiers.topic.value = <<"a">>

-----------------------------------------------------------------------------
(* Properties of the translator, checked under Spec *)

IsSubstring(sub, s) ==
    \E i \in 0..(Len(s) - Len(sub)) : SubSeq(s, i + 1, i + Len(sub)) = sub

\* C10: the message of the error translated from a non-2xx response: for status
\* 422 it contains the request's q and the provider's first field error, for any
\* other status it is HTTP <code>: <message> (<url>)
C10_TranslatedMessage ==
    (msg # Nil /\ err # Nil /\ err.kind = "http") =>
        LET req == requests[Len(requests)]
        IN /\ ~msg.panic
           /\ IF resp.StatusCode = 422
              THEN /\ IsSubstring(req.q, msg.text)
                   /\ (resp.Json /\ Len(resp.Body.Errors) > 0) =>
                         IsSubstring(<<resp.Body.Errors[1].Message>>, msg.text)
              ELSE msg.text = <<"HTTP ">> \o Itoa(resp.StatusCode)
                              \o <<": ", IF resp.Json THEN resp.Body.Message ELSE resp.Status, " (">>
                              \o RequestURL(req) \o <<")">>

\* C11: for a non-2xx response whose content type is not JSON, whatever its
\* status, the translated error is made of the status alone (its message the
\* status line, nothing taken from the body), and printing it does not crash
\* and shows that status line
C11_NonJSONStatusLine ==
    (err # Nil /\ err.kind = "http" /\ ~resp.Json) =>
        /\ err.Message = resp.Status
        /\ err.Errors = <<>>
        /\ msg # Nil => (~msg.panic /\ IsSubstring(<<resp.Status>>, msg.text))

-----------------------------------------------------------------------------
(* Properties of the fetcher against the page-serving provider, under Spec *)

\* the first n items of the corpus, in corpus order
FirstItems(n) == [i \in 1..n |-> i]

\* C12: against the provider that serves (page p, per_page s) as the corpus
\* items (p-1)*s+1 .. p*s and names page p+1 as the next, a fetch that ends
\* without an error returns the first min(limit, n) corpus items, in order,
\* none repeated and none skipped
C12_FirstItemsOfCorpus ==
    (pc = "returned" /\ err = Nil /\ provider.kind = "corpus") =>
        result.Items = FirstItems(IF limit < provider.n THEN limit ELSE provider.n)

\* C13: a fetch sends at most limit requests, whatever the provider answers
C13_AtMostLimitRequests == Len(requests) <= limit

====
